---- MODULE Spec2Model ----
\* Model of amazonscraper.py: main, scrape_amazon, retry_failed_urls and
\* is_valid_product_data.  The rendering engine (selenium) and the operator are
\* the environment: what a page contains, and whether a call into the engine
\* raises, is chosen nondeterministically at every call.
\* A target is a row of the input table; the program never compares two URLs,
\* so rows are named by their position 1..Len(df).
EXTENDS Naturals, Integers, Sequences, FiniteSets, TLC

VARIABLES
    pc,             \* position in main / scrape_amazon / retry_failed_urls
    df,             \* the input table, read once (scrape_amazon, line 258)
    no_login,       \* args.no_login
    main_driver,    \* main's variable `driver` (0: not yet bound)
    driver,         \* scrape_amazon's local `driver`, handed on to retry_failed_urls
    sessions,       \* every webdriver.Chrome ever created: posture and number of quit() calls
    idx,            \* position of the for loop of scrape_amazon in df
    failed_urls,    \* scrape_amazon's failed_urls
    csv_exists,     \* scraped_amazon_data.csv exists (with its header)
    csv_rows,       \* data rows of scraped_amazon_data.csv
    product_data,   \* last value returned by scrape_amazon_product
    cycle,          \* which resolve cycle is running: 1 (lines 293-299), 2 (lines 315-321)
    ret,            \* value returned by scrape_amazon
    url_i,          \* position of the for loop of retry_failed_urls in failed_urls
    attempt,        \* number of iterations of the attempt loop started for the current url
    success,        \* retry_failed_urls's success
    retry_failures, \* retry_failed_urls's retry_failures
    failed_file,    \* rows of failed_urls.csv (<<>>: never written)
    failed_writes,  \* number of times failed_urls.csv was written
    retried,        \* history: the targets that have had a retry attempt
    trace,          \* history: calls made for the current target in the current phase
    vrec,           \* argument of is_valid_product_data when it is run on its own
    vres,           \* its result
    url_arg,        \* argument of clean_url when it is run on its own
    url_res,        \* its results
    src_arg,        \* page_source read by check_for_captcha when it is run on its own
    src_res,        \* its result and the number of prompts it made
    page_arg,       \* page loaded by scrape_amazon_product when it is run on its own
    page_res        \* what it returned or raised

vars == <<pc, df, no_login, main_driver, driver, sessions, idx, failed_urls,
          csv_exists, csv_rows, product_data, cycle, ret, url_i, attempt,
          success, retry_failures, failed_file, failed_writes, retried, trace,
          vrec, vres,
          url_arg, url_res, src_arg, src_res, page_arg, page_res>>

-----------------------------------------------------------------------------
\* Bounds

MaxTargets == 2

-----------------------------------------------------------------------------
\* Records

max_retries == 3

ERROR == "#ERROR"

NA == "NA"

TEXT == "text"

Fields ==
    {"URL", "Title", "Author", "Format", "Summary", "Print Length", "ASIN",
     "Publisher", "Publication Date", "Best Sellers Rank", "Amazon Rating",
     "Amazon # of Ratings", "Goodreads Rating", "Goodreads # of Ratings"}

important_fields == {"Title", "Author", "Format", "ASIN", "Amazon Rating"}

\* A record whose fields in errs are the error sentinel, whose fields in nas
\* are the not-present value and whose other fields hold text.
Rec(errs, nas) ==
    [f \in Fields |-> IF f \in errs THEN ERROR ELSE IF f \in nas THEN NA ELSE TEXT]

EmptyRec == [f \in Fields |-> ""]

is_valid_product_data_na(product_data_) ==
    Cardinality({f \in important_fields : product_data_[f] # NA}) >= 3

is_valid_product_data_gt(product_data_) ==
    Cardinality({f \in important_fields : product_data_[f] # ERROR}) > 3

is_valid_product_data(product_data_) ==
    Cardinality({f \in important_fields : product_data_[f] # ERROR}) >= 3

\* The values scrape_amazon_product returns: the string "CAPTCHA" or a dict.
\* Subscripting the string with a field name raises TypeError (line 347).
Captcha == [kind |-> "CAPTCHA", rec |-> EmptyRec]

NoData == [kind |-> "none", rec |-> EmptyRec]

Dict(r) == [kind |-> "record", rec |-> r]

Raised == [kind |-> "raise", rec |-> EmptyRec]

-----------------------------------------------------------------------------
\* clean_url (lines 74-82).  A URL is a sequence of characters; "https" and
\* "ref" stand for those letters in a row, "x" for any other letter.

MinOf(S) == CHOOSE m \in S : \A n \in S : m <= n

MaxOf(S) == CHOOSE m \in S : \A n \in S : m >= n

\* str.find(c, start): the first position of a character of C at or after
\* from, 0 when there is none.
Find(str, C, from) ==
    LET K == {k \in from..Len(str) : str[k] \in C}
    IN IF K = {} THEN 0 ELSE MinOf(K)

\* str.rfind(c): the last position of c, 0 when there is none.
RFind(str, c) ==
    LET K == {k \in 1..Len(str) : str[k] = c}
    IN IF K = {} THEN 0 ELSE MaxOf(K)

Drop(str, k) == SubSeq(str, k + 1, Len(str))

\* urllib.parse.scheme_chars, among the characters of the model.
scheme_chars == {"https", "x", "ref"}

\* urllib.parse.uses_params, among the schemes of the model.
uses_params == {<<>>, <<"https">>}

\* urllib.parse.urlsplit: scheme, netloc and path (the query is dropped).
urlsplit(url) ==
    LET i == Find(url, {":"}, 1)
        has_scheme == i > 1 /\ \A k \in 1..(i - 1) : url[k] \in scheme_chars
        scheme == IF has_scheme THEN SubSeq(url, 1, i - 1) ELSE <<>>
        rest == IF has_scheme THEN Drop(url, i) ELSE url
        has_netloc == Len(rest) >= 2 /\ rest[1] = "/" /\ rest[2] = "/"
        wdelim == Find(rest, {"/", "?"}, 3)
        delim == IF wdelim = 0 THEN Len(rest) + 1 ELSE wdelim
        netloc == IF has_netloc THEN SubSeq(rest, 3, delim - 1) ELSE <<>>
        rest2 == IF has_netloc THEN Drop(rest, delim - 1) ELSE rest
        q == Find(rest2, {"?"}, 1)
    IN [scheme |-> scheme,
        netloc |-> netloc,
        path |-> IF q = 0 THEN rest2 ELSE SubSeq(rest2, 1, q - 1)]

\* urllib.parse._splitparams: the path without the parameters of its last
\* segment.
splitparams(url) ==
    LET i == IF Find(url, {"/"}, 1) # 0
             THEN Find(url, {";"}, RFind(url, "/"))
             ELSE Find(url, {";"}, 1)
    IN IF i = 0 THEN url ELSE SubSeq(url, 1, i - 1)

\* urllib.parse.urlparse (line 75).
urlparse(url) ==
    LET r == urlsplit(url)
    IN IF r.scheme \in uses_params /\ Find(r.path, {";"}, 1) # 0
       THEN [r EXCEPT !.path = splitparams(r.path)]
       ELSE r

\* path.split("/ref")[0] (line 77).
BeforeRef(path) ==
    LET K == {k \in 1..(Len(path) - 1) : path[k] = "/" /\ path[k + 1] = "ref"}
    IN IF K = {} THEN path ELSE SubSeq(path, 1, MinOf(K) - 1)

\* str.rstrip("/") (line 77).
RECURSIVE rstrip(_)
rstrip(str) ==
    IF str # <<>> /\ str[Len(str)] = "/"
    THEN rstrip(SubSeq(str, 1, Len(str) - 1))
    ELSE str

\* The path of line 77.
CleanPath_norstrip(path) == BeforeRef(path)

CleanPath(path) == rstrip(BeforeRef(path))

clean_url(url) ==
    LET parsed_url == urlparse(url)
        clean_path == CleanPath(parsed_url.path)
        cleaned == parsed_url.scheme \o <<":", "/", "/">> \o parsed_url.netloc \o clean_path
    IN IF clean_path = <<>> \/ clean_path[Len(clean_path)] # "/"
       THEN cleaned \o <<"/">>
       ELSE cleaned

-----------------------------------------------------------------------------
\* check_for_captcha (lines 386-392).  A page source is a sequence of
\* characters: the letters of the keyword in either case, "x" for any other.

\* str.lower(), character by character.
lower_char(ch) ==
    CASE ch = "C" -> "c"
      [] ch = "A" -> "a"
      [] ch = "P" -> "p"
      [] ch = "T" -> "t"
      [] ch = "H" -> "h"
      [] OTHER -> ch

lower(str) == [k \in 1..Len(str) |-> lower_char(str[k])]

keyword == <<"c", "a", "p", "t", "c", "h", "a">>

\* pat in str
IsSubstring(pat, str) ==
    \E k \in 1..(Len(str) - Len(pat) + 1) : SubSeq(str, k, k + Len(pat) - 1) = pat

\* Line 388: "captcha" in driver.page_source.lower()
check_for_captcha_casesensitive(page_source) == IsSubstring(keyword, page_source)

check_for_captcha(page_source) == IsSubstring(keyword, lower(page_source))

\* Page sources read in the runs of scrape_amazon that are explored.
SamplePageSources == {<<"x">>, <<"x", "C", "a", "p", "t", "c", "h", "a">>}

-----------------------------------------------------------------------------
\* scrape_amazon_product (lines 86-253).  A loaded page is its source as
\* check_for_captcha reads it, whether the wait of line 96 times out, and for
\* every element a field rule looks up what the lookup finds: "absent" (no
\* such element), "empty" (an element with no text), "text" (an element with
\* text the rule can use), "nonext" (the ASIN or Publisher label with no span
\* after it), "bad" (a date text that is no date), "na" (the date text "NA").

NAN == "nan"

IndexError == "IndexError"

Elements == (Fields \ {"URL"}) \cup {"gr-review-base"}

Status(e) ==
    CASE e \in {"ASIN", "Publisher"} -> {"absent", "nonext", "empty", "text"}
      [] e = "Publication Date" -> {"absent", "empty", "bad", "na", "text"}
      [] e = "gr-review-base" -> {"absent", "text"}
      [] OTHER -> {"absent", "empty", "text"}

\* get_text(strip=True) of an element that was found
get_text(st) == IF st = "empty" THEN "" ELSE TEXT

GoodreadsRule_absenterror(f, elems) ==
    IF elems["gr-review-base"] = "absent" \/ elems["Goodreads Rating"] = "absent"
       \/ elems["Goodreads # of Ratings"] \in {"absent", "empty"}
    THEN ERROR
    ELSE IF f = "Goodreads Rating" THEN get_text(elems[f]) ELSE TEXT

\* Lines 116-139: both Goodreads fields come out of one try block.
GoodreadsRule(f, elems) ==
    IF elems["gr-review-base"] = "absent"
    THEN NAN
    ELSE IF \/ elems["Goodreads Rating"] = "absent"
            \/ elems["Goodreads # of Ratings"] \in {"absent", "empty"}
         THEN ERROR
         ELSE IF f = "Goodreads Rating" THEN get_text(elems[f]) ELSE TEXT

\* Lines 141-231: the value a rule assigns, or IndexError when .split()[0]
\* finds no token, which no rule catches.
FirstTokenRule(st, missing) ==
    CASE st = "absent" -> missing
      [] st = "empty" -> IndexError
      [] OTHER -> TEXT

\* strftime("%m/%d/%Y") of a date
FormattedDate == "MM/DD/YYYY"

\* Lines 203-205: the text of the element, "NA" when there is no element.
pub_date_text(st) ==
    CASE st \in {"absent", "na"} -> NA
      [] st = "empty" -> ""
      [] st = "bad" -> "bad"
      [] OTHER -> TEXT

\* Lines 206-212: the text is parsed and formatted unless it is "NA"; the
\* ValueError of a text that is no date (of NaT for the empty text) is caught.
DateRule(st) ==
    IF pub_date_text(st) # NA
    THEN IF pub_date_text(st) = TEXT THEN FormattedDate ELSE ERROR
    ELSE pub_date_text(st)

OnAttributeError_na == NA

\* Lines 144-145 and alike: calling get_text on the None of a lookup that
\* found nothing raises AttributeError, and the handler assigns "#ERROR".
OnAttributeError == ERROR

FieldRule(f, elems) ==
    CASE f \in {"Title", "Author", "Format", "Best Sellers Rank"} ->
           IF elems[f] = "absent" THEN OnAttributeError ELSE get_text(elems[f])
      [] f = "Summary" ->
           IF elems[f] = "absent" THEN NA ELSE get_text(elems[f])
      [] f = "Print Length" -> FirstTokenRule(elems[f], NA)
      [] f \in {"ASIN", "Publisher"} ->
           CASE elems[f] = "absent" -> NA
             [] elems[f] = "nonext" -> OnAttributeError
             [] OTHER -> get_text(elems[f])
      [] f = "Publication Date" -> DateRule(elems[f])
      [] f \in {"Amazon Rating", "Amazon # of Ratings"} ->
           FirstTokenRule(elems[f], OnAttributeError)
      [] f \in {"Goodreads Rating", "Goodreads # of Ratings"} -> GoodreadsRule(f, elems)
      [] OTHER -> TEXT    \* "URL": clean_url(url), a string that is no sentinel

\* Lines 108-253: parse the page, apply the rules in turn, return the dict.
apply_field_rules(page) ==
    IF \E f \in Fields : FieldRule(f, page.elems) = IndexError
    THEN Raised
    ELSE Dict([f \in Fields |-> FieldRule(f, page.elems)])

scrape_amazon_product(page) ==
    IF check_for_captcha(page.source)
    THEN Captcha
    ELSE apply_field_rules(page)

\* A page on which no element of any rule is present and no challenge marker
\* is found, and the record extracted from it.
InterstitialPage ==
    [source |-> <<"x">>, timeout |-> TRUE, elems |-> [e \in Elements |-> "absent"]]

InterstitialRecord == apply_field_rules(InterstitialPage).rec

\* Records scrape_amazon_product returns in the runs explored: every field
\* found; exactly three important fields not in error (Format and ASIN in
\* error); the record of a page without any of the elements, which does not
\* pass validation.
SampleRecords ==
    {Rec({}, {}),
     Rec({"Format", "ASIN"}, {"Summary"}),
     InterstitialRecord}

-----------------------------------------------------------------------------
\* Sessions

\* switch_browser_mode: a new session in the posture asked for.
switch_browser_mode(ss, headless) ==
    Append(ss, [headless |-> headless, quits |-> 0])

\* driver.quit(): one more quit() on session d.
quit(ss, d) == [ss EXCEPT ![d].quits = @ + 1]

\* A session answers only until it has been quit: reading page_source or
\* loading a page on a session that was quit raises.
IsOpen(d) == d \in 1..Len(sessions) /\ sessions[d].quits = 0

\* History entries
Ev(op, kind) == [op |-> op, kind |-> kind, rec |-> EmptyRec]

EvExtract(out) == [op |-> "extract", kind |-> out.kind, rec |-> out.rec]

\* What check_for_captcha(d) can do: return True ("T") after the operator
\* answered its prompt, return False ("F"), or raise.
CheckOutcomes(d) ==
    IF IsOpen(d)
    THEN {"raise"} \cup {IF check_for_captcha(src) THEN "T" ELSE "F" : src \in SamplePageSources}
    ELSE {"raise"}

\* What scrape_amazon_product(d, url) can do: return "CAPTCHA", return a
\* record, or raise.
ExtractOutcomes(d) ==
    IF IsOpen(d)
    THEN {Captcha, Raised} \cup {Dict(r) : r \in SampleRecords}
    ELSE {Raised}

\* A call into the engine on a fresh session succeeds or raises.
CallOutcomes == {"ok", "raise"}

\* A row written by an earlier run of the program.
PriorRow == [url |-> 0, rec |-> Rec({}, {})]

\* Values of the variables of a function that is not being run on its own.
NoUrlRes == [once |-> <<>>, twice |-> <<>>, with_ref |-> <<>>, with_slash |-> <<>>]

NoSrcRes == [ret |-> "unset", prompts |-> 0]

NoPage == [source |-> <<>>, timeout |-> FALSE, elems |-> [e \in Elements |-> "absent"]]

-----------------------------------------------------------------------------
\* Initial state: main has parsed its arguments (lines 407-428).

Init ==
    /\ pc = "main_login"
    /\ df \in {[i \in 1..n |-> i] : n \in 0..MaxTargets}
    /\ no_login \in BOOLEAN
    /\ main_driver = 0
    /\ driver = 0
    /\ sessions = <<>>
    /\ idx = 1
    /\ failed_urls = <<>>
    /\ \/ csv_exists = FALSE /\ csv_rows = <<>>
       \/ csv_exists = TRUE /\ csv_rows = <<PriorRow>>
    /\ product_data = NoData
    /\ cycle = 0
    /\ ret = "unset"
    /\ url_i = 1
    /\ attempt = 0
    /\ success = FALSE
    /\ retry_failures = <<>>
    /\ failed_file = <<>>
    /\ failed_writes = 0
    /\ retried = {}
    /\ trace = <<>>
    /\ vrec = EmptyRec
    /\ vres = "unset"
    /\ url_arg = <<>>
    /\ url_res = NoUrlRes
    /\ src_arg = <<>>
    /\ src_res = NoSrcRes
    /\ page_arg = NoPage
    /\ page_res = NoData

scrapeVars == <<idx, failed_urls, csv_exists, csv_rows, product_data, cycle, ret>>

retryVars == <<url_i, attempt, success, retry_failures, failed_file, failed_writes, retried>>

pureVars == <<url_arg, url_res, src_arg, src_res, page_arg, page_res>>

validVars == <<vrec, vres, pureVars>>

-----------------------------------------------------------------------------
\* main (lines 430-486).  An exception in main itself is not caught and ends
\* the process before scrape_amazon; those runs are not explored.

\* Lines 431-436: open an interactive session for the login, or skip it.
MainLogin ==
    /\ pc = "main_login"
    /\ IF no_login
       THEN /\ pc' = "main_open"
            /\ UNCHANGED <<sessions, main_driver>>
       ELSE /\ sessions' = switch_browser_mode(sessions, FALSE)
            /\ main_driver' = Len(sessions) + 1
            /\ pc' = "main_login_quit"
    /\ UNCHANGED <<df, no_login, driver, trace>>
    /\ UNCHANGED <<scrapeVars, retryVars, validVars>>

CloseLogin_leaveopen(ss, d) == ss

\* Line 458: driver.quit() when the login is done.
CloseLogin(ss, d) == quit(ss, d)

\* Lines 438-458: cookies and login in the interactive session, then quit.
MainLoginQuit ==
    /\ pc = "main_login_quit"
    /\ sessions' = CloseLogin(sessions, main_driver)
    /\ pc' = "main_open"
    /\ UNCHANGED <<df, no_login, main_driver, driver, trace>>
    /\ UNCHANGED <<scrapeVars, retryVars, validVars>>

\* Lines 463-469: the session of the batch, discreet posture.
MainOpen ==
    /\ pc = "main_open"
    /\ sessions' = switch_browser_mode(sessions, TRUE)
    /\ main_driver' = Len(sessions) + 1
    /\ pc' = "main_check"
    /\ UNCHANGED <<df, no_login, driver, trace>>
    /\ UNCHANGED <<scrapeVars, retryVars, validVars>>

\* Lines 469-470: load the start page and check it for a challenge.
MainCheck ==
    /\ pc = "main_check"
    /\ \E detected \in BOOLEAN :
        pc' = IF detected THEN "main_r_quit" ELSE "main_call"
    /\ UNCHANGED <<df, no_login, main_driver, driver, sessions, trace>>
    /\ UNCHANGED <<scrapeVars, retryVars, validVars>>

\* Line 472: driver.quit() on the discreet session.
MainResolveQuit ==
    /\ pc = "main_r_quit"
    /\ sessions' = quit(sessions, main_driver)
    /\ pc' = "main_r_open_i"
    /\ UNCHANGED <<df, no_login, main_driver, driver, trace>>
    /\ UNCHANGED <<scrapeVars, retryVars, validVars>>

\* Lines 473-475: an interactive session, the start page, the operator's answer.
MainResolveOpenInteractive ==
    /\ pc = "main_r_open_i"
    /\ sessions' = switch_browser_mode(sessions, FALSE)
    /\ main_driver' = Len(sessions) + 1
    /\ pc' = "main_r_quit2"
    /\ UNCHANGED <<df, no_login, driver, trace>>
    /\ UNCHANGED <<scrapeVars, retryVars, validVars>>

\* Line 477: driver.quit() on the interactive session.
MainResolveQuitInteractive ==
    /\ pc = "main_r_quit2"
    /\ sessions' = quit(sessions, main_driver)
    /\ pc' = "main_r_open_h"
    /\ UNCHANGED <<df, no_login, main_driver, driver, trace>>
    /\ UNCHANGED <<scrapeVars, retryVars, validVars>>

\* Line 478: a discreet session again.
MainResolveOpenHeadless ==
    /\ pc = "main_r_open_h"
    /\ sessions' = switch_browser_mode(sessions, TRUE)
    /\ main_driver' = Len(sessions) + 1
    /\ pc' = "main_call"
    /\ UNCHANGED <<df, no_login, driver, trace>>
    /\ UNCHANGED <<scrapeVars, retryVars, validVars>>

\* Line 484: scrape_amazon(driver, csv_file, service, ua); the callee's
\* `driver` starts as the caller's.
MainCall ==
    /\ pc = "main_call"
    /\ driver' = main_driver
    /\ pc' = "scrape_start"
    /\ UNCHANGED <<df, no_login, main_driver, sessions, trace>>
    /\ UNCHANGED <<scrapeVars, retryVars, validVars>>

\* Line 486: driver.quit() on main's own variable; the value scrape_amazon
\* returned is not looked at.
MainQuit ==
    /\ pc = "returned"
    /\ sessions' = quit(sessions, main_driver)
    /\ pc' = "done"
    /\ UNCHANGED <<df, no_login, main_driver, driver, trace>>
    /\ UNCHANGED <<scrapeVars, retryVars, validVars>>

-----------------------------------------------------------------------------
\* scrape_amazon (lines 257-340)

\* Lines 258-281: read the input, create the output with its header if absent.
CreateIfAbsent_truncate(exists, rows) == <<>>

\* Lines 262-281: only a file that does not exist is written, header only.
CreateIfAbsent(exists, rows) == IF exists THEN rows ELSE <<>>

ScrapeStart ==
    /\ pc = "scrape_start"
    /\ failed_urls' = <<>>
    /\ csv_rows' = CreateIfAbsent(csv_exists, csv_rows)
    /\ csv_exists' = TRUE
    /\ idx' = 1
    /\ pc' = "loop"
    /\ UNCHANGED <<df, no_login, main_driver, driver, sessions, trace>>
    /\ UNCHANGED <<product_data, cycle, ret>>
    /\ UNCHANGED <<retryVars, validVars>>

\* Lines 284-286: next row of the input, or the end of the loop.
LoopHead ==
    /\ pc = "loop"
    /\ IF idx <= Len(df)
       THEN pc' = "check1" /\ trace' = <<>>
       ELSE pc' = "after_loop" /\ UNCHANGED trace
    /\ cycle' = 0
    /\ UNCHANGED <<df, no_login, main_driver, driver, sessions>>
    /\ UNCHANGED <<idx, failed_urls, csv_exists, csv_rows, product_data, ret>>
    /\ UNCHANGED <<retryVars, validVars>>

\* Lines 333-335: an exception anywhere in the try block puts the target in
\* failed_urls, and the loop goes on with the next row.
NextRow_same(i) == i

\* Line 284: for index, row in df.iterrows()
NextRow(i) == i + 1

ExceptHandler_abort ==
    /\ failed_urls' = Append(failed_urls, df[idx])
    /\ idx' = NextRow(idx)
    /\ pc' = "after_loop"

ExceptHandler ==
    /\ failed_urls' = Append(failed_urls, df[idx])
    /\ idx' = NextRow(idx)
    /\ pc' = "loop"

\* Line 290: check_for_captcha(driver) before scraping.
Check1 ==
    /\ pc = "check1"
    /\ \E out \in CheckOutcomes(driver) :
        /\ trace' = Append(trace, Ev("check", out))
        /\ CASE out = "T" -> /\ pc' = "r_quit1"
                             /\ cycle' = 1
                             /\ UNCHANGED <<failed_urls, idx>>
             [] out = "F" -> /\ pc' = "extract1"
                             /\ UNCHANGED <<failed_urls, idx, cycle>>
             [] out = "raise" -> ExceptHandler /\ UNCHANGED cycle
    /\ UNCHANGED <<df, no_login, main_driver, driver, sessions>>
    /\ UNCHANGED <<csv_exists, csv_rows, product_data, ret>>
    /\ UNCHANGED <<retryVars, validVars>>

\* Lines 293 and 315: driver.quit() on the current session.
ResolveQuit ==
    /\ pc = "r_quit1"
    /\ sessions' = quit(sessions, driver)
    /\ trace' = Append(trace, Ev("quit", "ok"))
    /\ pc' = "r_open_i"
    /\ UNCHANGED <<df, no_login, main_driver, driver>>
    /\ UNCHANGED <<scrapeVars, retryVars, validVars>>

\* Lines 294 and 316: driver = switch_browser_mode(service, headless=False).
ResolveOpenInteractive ==
    /\ pc = "r_open_i"
    /\ \E out \in CallOutcomes :
        /\ trace' = Append(trace, Ev("open_interactive", out))
        /\ IF out = "ok"
           THEN /\ sessions' = switch_browser_mode(sessions, FALSE)
                /\ driver' = Len(sessions) + 1
                /\ pc' = "r_get"
                /\ UNCHANGED <<failed_urls, idx>>
           ELSE /\ ExceptHandler
                /\ UNCHANGED <<sessions, driver>>
    /\ UNCHANGED <<df, no_login, main_driver>>
    /\ UNCHANGED <<csv_exists, csv_rows, product_data, cycle, ret>>
    /\ UNCHANGED <<retryVars, validVars>>

\* Lines 295 and 317: driver.get(amazon_url) in the interactive session.
ResolveGet ==
    /\ pc = "r_get"
    /\ \E out \in CallOutcomes :
        /\ trace' = Append(trace, Ev("get", out))
        /\ IF out = "ok"
           THEN pc' = "r_input" /\ UNCHANGED <<failed_urls, idx>>
           ELSE ExceptHandler
    /\ UNCHANGED <<df, no_login, main_driver, driver, sessions>>
    /\ UNCHANGED <<csv_exists, csv_rows, product_data, cycle, ret>>
    /\ UNCHANGED <<retryVars, validVars>>

\* Lines 297 and 319: after the operator's answer the interactive session
\* is quit before the discreet one is opened.
AfterInput_noquit == "r_open_h"

AfterInput == "r_quit2"

\* Lines 296 and 318: input(...) returns when the operator has answered.
ResolveInput ==
    /\ pc = "r_input"
    /\ trace' = Append(trace, Ev("input", "ok"))
    /\ pc' = AfterInput
    /\ UNCHANGED <<df, no_login, main_driver, driver, sessions>>
    /\ UNCHANGED <<scrapeVars, retryVars, validVars>>

\* Lines 297 and 319: driver.quit() on the interactive session.
ResolveQuitInteractive ==
    /\ pc = "r_quit2"
    /\ sessions' = quit(sessions, driver)
    /\ trace' = Append(trace, Ev("quit", "ok"))
    /\ pc' = "r_open_h"
    /\ UNCHANGED <<df, no_login, main_driver, driver>>
    /\ UNCHANGED <<scrapeVars, retryVars, validVars>>

\* What follows a resolve cycle: the second check (line 302) after the first
\* cycle, the retried extraction (line 323) after the second.
AfterResolve(c) == IF c = 1 THEN "check2" ELSE "extract2"

\* Lines 299 and 321: driver = switch_browser_mode(service, headless=True).
ResolveOpenHeadless ==
    /\ pc = "r_open_h"
    /\ \E out \in CallOutcomes :
        /\ trace' = Append(trace, Ev("open_headless", out))
        /\ IF out = "ok"
           THEN /\ sessions' = switch_browser_mode(sessions, TRUE)
                /\ driver' = Len(sessions) + 1
                /\ pc' = AfterResolve(cycle)
                /\ UNCHANGED <<failed_urls, idx>>
           ELSE /\ ExceptHandler
                /\ UNCHANGED <<sessions, driver>>
    /\ UNCHANGED <<df, no_login, main_driver>>
    /\ UNCHANGED <<csv_exists, csv_rows, product_data, cycle, ret>>
    /\ UNCHANGED <<retryVars, validVars>>

\* Lines 302-307: a challenge again right after the resolve cycle:
\* return "CAPTCHA" out of the loop and out of scrape_amazon.
RecheckDetected_goon ==
    /\ pc' = "extract1"
    /\ UNCHANGED ret

RecheckDetected ==
    /\ pc' = "returned"
    /\ ret' = "CAPTCHA"

\* Line 302: the second check_for_captcha(driver).
Check2 ==
    /\ pc = "check2"
    /\ \E out \in CheckOutcomes(driver) :
        /\ trace' = Append(trace, Ev("check", out))
        /\ CASE out = "T" -> RecheckDetected /\ UNCHANGED <<failed_urls, idx>>
             [] out = "F" -> pc' = "extract1" /\ UNCHANGED <<failed_urls, idx, ret>>
             [] out = "raise" -> ExceptHandler /\ UNCHANGED ret
    /\ UNCHANGED <<df, no_login, main_driver, driver, sessions>>
    /\ UNCHANGED <<csv_exists, csv_rows, product_data, cycle>>
    /\ UNCHANGED <<retryVars, validVars>>

\* Lines 310-313: product_data = scrape_amazon_product(driver, amazon_url);
\* on "CAPTCHA" the second resolve cycle starts.
Extract1 ==
    /\ pc = "extract1"
    /\ \E out \in ExtractOutcomes(driver) :
        /\ trace' = Append(trace, EvExtract(out))
        /\ CASE out.kind = "raise" ->
                    ExceptHandler /\ UNCHANGED <<product_data, cycle>>
             [] out.kind = "CAPTCHA" ->
                    /\ product_data' = out
                    /\ cycle' = 2
                    /\ pc' = "r_quit1"
                    /\ UNCHANGED <<failed_urls, idx>>
             [] out.kind = "record" ->
                    /\ product_data' = out
                    /\ pc' = "validate"
                    /\ UNCHANGED <<failed_urls, idx, cycle>>
    /\ UNCHANGED <<df, no_login, main_driver, driver, sessions>>
    /\ UNCHANGED <<csv_exists, csv_rows, ret>>
    /\ UNCHANGED <<retryVars, validVars>>

AfterSecondExtract_again == "r_quit1"

\* Lines 323-326: the result of the second extraction is not compared with
\* "CAPTCHA"; whatever it is goes to the validation.
AfterSecondExtract == "validate"

\* Line 323: product_data = scrape_amazon_product(driver, amazon_url) again.
Extract2 ==
    /\ pc = "extract2"
    /\ \E out \in ExtractOutcomes(driver) :
        /\ trace' = Append(trace, EvExtract(out))
        /\ IF out.kind = "raise"
           THEN ExceptHandler /\ UNCHANGED product_data
           ELSE /\ product_data' = out
                /\ pc' = AfterSecondExtract
                /\ UNCHANGED <<failed_urls, idx>>
    /\ UNCHANGED <<df, no_login, main_driver, driver, sessions>>
    /\ UNCHANGED <<csv_exists, csv_rows, cycle, ret>>
    /\ UNCHANGED <<retryVars, validVars>>

\* Lines 325-332: a valid record is appended to the output, an invalid one
\* puts the target in failed_urls; is_valid_product_data subscripts its
\* argument, which raises when the argument is the string "CAPTCHA".
Validate ==
    /\ pc = "validate"
    /\ trace' = Append(trace, Ev("validate", product_data.kind))
    /\ IF product_data.kind = "CAPTCHA"
       THEN ExceptHandler /\ UNCHANGED csv_rows
       ELSE IF is_valid_product_data(product_data.rec)
            THEN /\ csv_rows' = Append(csv_rows, [url |-> df[idx], rec |-> product_data.rec])
                 /\ idx' = NextRow(idx)
                 /\ pc' = "loop"
                 /\ UNCHANGED failed_urls
            ELSE /\ failed_urls' = Append(failed_urls, df[idx])
                 /\ idx' = NextRow(idx)
                 /\ pc' = "loop"
                 /\ UNCHANGED csv_rows
    /\ UNCHANGED <<df, no_login, main_driver, driver, sessions>>
    /\ UNCHANGED <<csv_exists, product_data, cycle, ret>>
    /\ UNCHANGED <<retryVars, validVars>>

\* Lines 337-340: retry the failed targets, if any, and return.
AfterLoop ==
    /\ pc = "after_loop"
    /\ IF failed_urls # <<>>
       THEN /\ pc' = "retry_url"
            /\ url_i' = 1
            /\ retry_failures' = <<>>
            /\ UNCHANGED ret
       ELSE /\ pc' = "returned"
            /\ ret' = "None"
            /\ UNCHANGED <<url_i, retry_failures>>
    /\ UNCHANGED <<df, no_login, main_driver, driver, sessions, trace>>
    /\ UNCHANGED <<idx, failed_urls, csv_exists, csv_rows, product_data, cycle>>
    /\ UNCHANGED <<attempt, success, failed_file, failed_writes, retried, validVars>>

-----------------------------------------------------------------------------
\* retry_failed_urls (lines 355-383), called with scrape_amazon's driver

\* Lines 357-358: next failed url, or the end of the loop.
RetryNextUrl ==
    /\ pc = "retry_url"
    /\ IF url_i <= Len(failed_urls)
       THEN /\ success' = FALSE
            /\ attempt' = 0
            /\ trace' = <<>>
            /\ pc' = "retry_attempt"
       ELSE /\ pc' = "retry_save"
            /\ UNCHANGED <<success, attempt, trace>>
    /\ UNCHANGED <<df, no_login, main_driver, driver, sessions>>
    /\ UNCHANGED <<scrapeVars, url_i, retry_failures, failed_file, failed_writes, retried, validVars>>

\* Line 359: for attempt in range(max_retries), after a iterations.
RetryLoopContinues_offbyone(a) == a <= max_retries

RetryLoopContinues(a) == a < max_retries

\* Line 368: break out of the attempt loop after a valid record.
AfterValidRetry_nobreak == "retry_attempt"

AfterValidRetry == "retry_after"

AfterRetryChallenge_stop == "retry_save"

\* Lines 361-362 and 373-374: "CAPTCHA" goes to is_valid_product_data, whose
\* TypeError is caught like any exception, and the attempt loop goes on.
AfterRetryChallenge == "retry_attempt"

AfterRaisedRetry_giveup == "retry_after"

\* Lines 373-374: the handler prints and the attempt loop goes on.
AfterRaisedRetry == "retry_attempt"

\* Lines 359-374: one iteration of the attempt loop.  An exception of the
\* extraction, or of is_valid_product_data on the string "CAPTCHA", is caught
\* at line 373 and the loop goes on.
RetryAttempt ==
    /\ pc = "retry_attempt"
    /\ IF RetryLoopContinues(attempt)
       THEN \E out \in ExtractOutcomes(driver) :
            /\ trace' = Append(trace, EvExtract(out))
            /\ attempt' = attempt + 1
            /\ retried' = retried \cup {failed_urls[url_i]}
            /\ IF out.kind = "record"
               THEN /\ product_data' = out
                    /\ IF is_valid_product_data(out.rec)
                       THEN /\ csv_rows' = Append(csv_rows,
                                    [url |-> failed_urls[url_i], rec |-> out.rec])
                            /\ success' = TRUE
                            /\ pc' = AfterValidRetry
                       ELSE UNCHANGED <<csv_rows, success, pc>>
               ELSE /\ product_data' = IF out.kind = "CAPTCHA" THEN out ELSE product_data
                    /\ pc' = IF out.kind = "CAPTCHA" THEN AfterRetryChallenge
                             ELSE AfterRaisedRetry
                    /\ UNCHANGED <<csv_rows, success>>
       ELSE /\ pc' = "retry_after"
            /\ UNCHANGED <<trace, attempt, retried, product_data, csv_rows, success>>
    /\ UNCHANGED <<df, no_login, main_driver, driver, sessions>>
    /\ UNCHANGED <<idx, failed_urls, csv_exists, cycle, ret>>
    /\ UNCHANGED <<url_i, retry_failures, failed_file, failed_writes, validVars>>

\* Lines 375-376: a url without a valid attempt goes to retry_failures.
NextRetryUrl_skip(i) == i + 2

\* Line 357: for url in failed_urls
NextRetryUrl(i) == i + 1

RetryAfter ==
    /\ pc = "retry_after"
    /\ retry_failures' = IF ~success THEN Append(retry_failures, failed_urls[url_i])
                         ELSE retry_failures
    /\ url_i' = NextRetryUrl(url_i)
    /\ pc' = "retry_url"
    /\ UNCHANGED <<df, no_login, main_driver, driver, sessions, trace>>
    /\ UNCHANGED <<scrapeVars, attempt, success, failed_file, failed_writes, retried, validVars>>

\* Lines 378-383: write failed_urls.csv if any url is left; retry_failed_urls
\* and then scrape_amazon return None.
FailuresToSave_all == failed_urls

\* Line 380: the frame written is made of retry_failures.
FailuresToSave == retry_failures

ShouldSave_always == TRUE

\* Line 379: if retry_failures
ShouldSave == retry_failures # <<>>

RetrySave ==
    /\ pc = "retry_save"
    /\ failed_file' = IF ShouldSave THEN FailuresToSave ELSE failed_file
    /\ failed_writes' = IF ShouldSave THEN failed_writes + 1 ELSE failed_writes
    /\ ret' = "None"
    /\ pc' = "returned"
    /\ UNCHANGED <<df, no_login, main_driver, driver, sessions, trace>>
    /\ UNCHANGED <<idx, failed_urls, csv_exists, csv_rows, product_data, cycle>>
    /\ UNCHANGED <<url_i, attempt, success, retry_failures, retried, validVars>>

-----------------------------------------------------------------------------
Next ==
    \/ MainLogin
    \/ MainLoginQuit
    \/ MainOpen
    \/ MainCheck
    \/ MainResolveQuit
    \/ MainResolveOpenInteractive
    \/ MainResolveQuitInteractive
    \/ MainResolveOpenHeadless
    \/ MainCall
    \/ MainQuit
    \/ ScrapeStart
    \/ LoopHead
    \/ Check1
    \/ ResolveQuit
    \/ ResolveOpenInteractive
    \/ ResolveGet
    \/ ResolveInput
    \/ ResolveQuitInteractive
    \/ ResolveOpenHeadless
    \/ Check2
    \/ Extract1
    \/ Extract2
    \/ Validate
    \/ AfterLoop
    \/ RetryNextUrl
    \/ RetryAttempt
    \/ RetryAfter
    \/ RetrySave

Spec == Init /\ [][Next]_vars

\* The program is one thread: a statement that can run does run, and the
\* operator answers each input(...) (lines 296, 318, 390, 475), so no step
\* of Next stays enabled for ever without being taken.
Fairness == WF_vars(Next)

\* A run with the login step (line 431) and no output file of an earlier
\* run (line 262); neither has a part in the loops of scrape_amazon.
InitFair == Init /\ ~no_login /\ ~csv_exists

FairSpec == InitFair /\ [][Next]_vars /\ Fairness

-----------------------------------------------------------------------------
\* is_valid_product_data on its own, for every record over three values of
\* the five important fields and of two other fields.

VariedFields == important_fields \cup {"Summary", "Publisher"}

ValidationInputs ==
    {[f \in Fields |-> IF f \in VariedFields THEN m[f] ELSE TEXT] :
        m \in [VariedFields -> {ERROR, NA, TEXT}]}

InitValid ==
    /\ pc = "is_valid"
    /\ df = <<>>
    /\ no_login = TRUE
    /\ main_driver = 0
    /\ driver = 0
    /\ sessions = <<>>
    /\ idx = 1
    /\ failed_urls = <<>>
    /\ csv_exists = FALSE
    /\ csv_rows = <<>>
    /\ product_data = NoData
    /\ cycle = 0
    /\ ret = "unset"
    /\ url_i = 1
    /\ attempt = 0
    /\ success = FALSE
    /\ retry_failures = <<>>
    /\ failed_file = <<>>
    /\ failed_writes = 0
    /\ retried = {}
    /\ trace = <<>>
    /\ vrec \in ValidationInputs
    /\ vres = "unset"
    /\ url_arg = <<>>
    /\ url_res = NoUrlRes
    /\ src_arg = <<>>
    /\ src_res = NoSrcRes
    /\ page_arg = NoPage
    /\ page_res = NoData

CallIsValid ==
    /\ pc = "is_valid"
    /\ vres' = IF is_valid_product_data(vrec) THEN "True" ELSE "False"
    /\ pc' = "is_valid_done"
    /\ UNCHANGED <<df, no_login, main_driver, driver, sessions, trace, vrec>>
    /\ UNCHANGED <<scrapeVars, retryVars, pureVars>>

NextValid == CallIsValid

SpecValid == InitValid /\ [][NextValid]_vars

-----------------------------------------------------------------------------
\* The variables of main, scrape_amazon and retry_failed_urls while one of
\* the other functions is run on its own.
NotRunning ==
    /\ df = <<>>
    /\ no_login = TRUE
    /\ main_driver = 0
    /\ driver = 0
    /\ sessions = <<>>
    /\ idx = 1
    /\ failed_urls = <<>>
    /\ csv_exists = FALSE
    /\ csv_rows = <<>>
    /\ product_data = NoData
    /\ cycle = 0
    /\ ret = "unset"
    /\ url_i = 1
    /\ attempt = 0
    /\ success = FALSE
    /\ retry_failures = <<>>
    /\ failed_file = <<>>
    /\ failed_writes = 0
    /\ retried = {}
    /\ trace = <<>>
    /\ vrec = EmptyRec
    /\ vres = "unset"

mainVars == <<df, no_login, main_driver, driver, sessions, trace, scrapeVars, retryVars>>

-----------------------------------------------------------------------------
\* clean_url on its own, for every URL of at most MaxUrlLen characters and
\* for those URLs behind a scheme and a host.

MaxUrlLen == 4

UrlAlphabet == {"https", "x", "ref", "/", ":", "?", ";"}

SeqsUpTo(A, n) == UNION {[1..k -> A] : k \in 0..n}

WithHost == {<<"https", ":", "/", "/", "x">>, <<"https", ":", "/", "/", "ref">>}

UrlInputs ==
    SeqsUpTo(UrlAlphabet, MaxUrlLen)
        \cup {h \o t : h \in WithHost, t \in SeqsUpTo(UrlAlphabet, MaxUrlLen)}

\* "/ref=y" and "/"
RefSuffix == <<"/", "ref", "=", "x">>

SlashSuffix == <<"/">>

InitUrl ==
    /\ pc = "clean_url"
    /\ NotRunning
    /\ url_arg \in UrlInputs
    /\ url_res = NoUrlRes
    /\ src_arg = <<>>
    /\ src_res = NoSrcRes
    /\ page_arg = NoPage
    /\ page_res = NoData

\* clean_url(u), clean_url(u + "/ref=y") and clean_url(u + "/").
CallCleanUrl ==
    /\ pc = "clean_url"
    /\ url_res' = [once |-> clean_url(url_arg),
                   twice |-> <<>>,
                   with_ref |-> clean_url(url_arg \o RefSuffix),
                   with_slash |-> clean_url(url_arg \o SlashSuffix)]
    /\ pc' = "clean_url_again"
    /\ UNCHANGED <<mainVars, vrec, vres, url_arg, src_arg, src_res, page_arg, page_res>>

\* clean_url of what clean_url returned.
CallCleanUrlAgain ==
    /\ pc = "clean_url_again"
    /\ url_res' = [url_res EXCEPT !.twice = clean_url(url_res.once)]
    /\ pc' = "clean_url_done"
    /\ UNCHANGED <<mainVars, vrec, vres, url_arg, src_arg, src_res, page_arg, page_res>>

NextUrl == CallCleanUrl \/ CallCleanUrlAgain

SpecUrl == InitUrl /\ [][NextUrl]_vars

-----------------------------------------------------------------------------
\* check_for_captcha on its own, for every page source made of at most
\* MaxPad characters, seven characters each a letter of the keyword in
\* lower or upper case or another character, and at most MaxPad characters.

MaxPad == 1

upper_char(ch) ==
    CASE ch = "c" -> "C"
      [] ch = "a" -> "A"
      [] ch = "p" -> "P"
      [] ch = "t" -> "T"
      [] ch = "h" -> "H"
      [] OTHER -> ch

KeywordLike ==
    {[k \in 1..Len(keyword) |->
        CASE m[k] = "lower" -> keyword[k]
          [] m[k] = "upper" -> upper_char(keyword[k])
          [] OTHER -> "x"] : m \in [1..Len(keyword) -> {"lower", "upper", "other"}]}

Pads == SeqsUpTo({"x", "c"}, MaxPad)

SourceInputs == {l \o w \o r : l \in Pads, w \in KeywordLike, r \in Pads}

InitCaptcha ==
    /\ pc = "check_for_captcha"
    /\ NotRunning
    /\ url_arg = <<>>
    /\ url_res = NoUrlRes
    /\ src_arg \in SourceInputs
    /\ src_res = NoSrcRes
    /\ page_arg = NoPage
    /\ page_res = NoData

\* Lines 386-392: on a challenge, prompt the operator and return True.
CallCheckForCaptcha ==
    /\ pc = "check_for_captcha"
    /\ src_res' = IF check_for_captcha(src_arg)
                  THEN [ret |-> "True", prompts |-> src_res.prompts + 1]
                  ELSE [ret |-> "False", prompts |-> src_res.prompts]
    /\ pc' = "check_for_captcha_done"
    /\ UNCHANGED <<mainVars, vrec, vres, url_arg, url_res, src_arg, page_arg, page_res>>

NextCaptcha == CallCheckForCaptcha

SpecCaptcha == InitCaptcha /\ [][NextCaptcha]_vars

-----------------------------------------------------------------------------
\* scrape_amazon_product on its own, for every page on which at most
\* MaxMissing elements are anything else than an element with usable text.

MaxMissing == 2

ElementInputs ==
    UNION {{[e \in Elements |-> IF e \in DOMAIN m THEN m[e] ELSE "text"] :
              m \in {m \in UNION {[D -> {"absent", "nonext", "empty", "bad", "na"}] :
                                     D \in {D \in SUBSET Elements : Cardinality(D) = k}} :
                        \A e \in DOMAIN m : m[e] \in Status(e)}} :
           k \in 0..MaxMissing}

PageInputs ==
    [source : SamplePageSources, timeout : BOOLEAN,
     elems : ElementInputs \cup {InterstitialPage.elems}]

InitExtract ==
    /\ pc = "scrape_amazon_product"
    /\ NotRunning
    /\ url_arg = <<>>
    /\ url_res = NoUrlRes
    /\ src_arg = <<>>
    /\ src_res = NoSrcRes
    /\ page_arg \in PageInputs
    /\ page_res = NoData

AfterChallenge_goon == "wait_for_page"

\* Line 91: return "CAPTCHA"
AfterChallenge == "scrape_amazon_product_done"

\* Lines 87-91: load the page and check it for a challenge.
LoadAndCheck ==
    /\ pc = "scrape_amazon_product"
    /\ IF check_for_captcha(page_arg.source)
       THEN page_res' = Captcha /\ pc' = AfterChallenge
       ELSE page_res' = page_res /\ pc' = "wait_for_page"
    /\ UNCHANGED <<mainVars, vrec, vres, url_arg, url_res, src_arg, src_res, page_arg>>

\* Lines 99-102: the exception of the wait is caught and a warning printed.
AfterTimeout == "scroll_and_sleep"

\* Lines 94-102: wait up to 30 seconds for #reviewFeatureGroup.
WaitForPage ==
    /\ pc = "wait_for_page"
    /\ pc' = IF page_arg.timeout THEN AfterTimeout ELSE "scroll_and_sleep"
    /\ UNCHANGED <<mainVars, vrec, vres, pureVars>>

\* Lines 105-106: scroll to the end of the page and sleep 5 to 10 seconds.
ScrollAndSleep ==
    /\ pc = "scroll_and_sleep"
    /\ pc' = "apply_field_rules"
    /\ UNCHANGED <<mainVars, vrec, vres, pureVars>>

\* Lines 108-253: the rules are applied to the page source as it is then.
ApplyFieldRules ==
    /\ pc = "apply_field_rules"
    /\ page_res' = apply_field_rules(page_arg)
    /\ pc' = "scrape_amazon_product_done"
    /\ UNCHANGED <<mainVars, vrec, vres, url_arg, url_res, src_arg, src_res, page_arg>>

NextExtract == LoadAndCheck \/ WaitForPage \/ ScrollAndSleep \/ ApplyFieldRules

SpecExtract == InitExtract /\ [][NextExtract]_vars

-----------------------------------------------------------------------------
\* Vocabulary of the properties

Targets == {df[k] : k \in 1..Len(df)}

InSeq(s, t) == \E k \in 1..Len(s) : s[k] = t

\* Positions of the rows of the output written for target t.
RowsOf(t) == {k \in 1..Len(csv_rows) : csv_rows[k].url = t}

InOutput(t) == RowsOf(t) # {}

NumOp(tr, op) == Cardinality({k \in 1..Len(tr) : tr[k].op = op})

\* A history entry of an extraction that returned a record passing validation.
Validates(e) ==
    /\ e.op = "extract"
    /\ e.kind = "record"
    /\ Cardinality({f \in important_fields : e.rec[f] = ERROR}) <= 2

\* trace holds the attempts of a target of the retry phase.
InRetryTrace ==
    \/ pc \in {"retry_attempt", "retry_after"}
    \/ pc = "retry_url" /\ url_i > 1

\* The target those attempts are for.
RetryTarget == failed_urls[IF pc = "retry_url" THEN url_i - 1 ELSE url_i]

\* trace holds the calls of a target of the main pass.
InMainTrace == trace # <<>> /\ trace[1].op = "check"

\* The main pass has finished with the target trace is about.
IterationOver == pc \in {"loop", "after_loop"}

-----------------------------------------------------------------------------
\* C1: when the run has ended, every input target has a row in the primary
\* output or an entry in failed_urls.csv, and not both.
C1_EveryTargetAccounted ==
    pc = "done" =>
        \A t \in Targets : (InOutput(t) /\ ~InSeq(failed_file, t))
                            \/ (~InOutput(t) /\ InSeq(failed_file, t))

\* C2: a target of the retry phase none of whose attempts validates is
\* extracted exactly max_retries times, never more, and is then put in
\* retry_failures, which is what failed_urls.csv holds when the run ends.
C2_RetryBound ==
    /\ InRetryTrace => NumOp(trace, "extract") <= max_retries
    /\ (pc = "retry_after" /\ \A k \in 1..Len(trace) : ~Validates(trace[k]))
            => NumOp(trace, "extract") = max_retries /\ ~success
    /\ (pc = "retry_url" /\ url_i > 1 /\ \A k \in 1..Len(trace) : ~Validates(trace[k]))
            => /\ NumOp(trace, "extract") = max_retries
               /\ retry_failures # <<>>
               /\ retry_failures[Len(retry_failures)] = RetryTarget
    /\ (pc \in {"returned", "done"} /\ ret = "None") => failed_file = retry_failures

C2_Witness ==
    /\ pc = "retry_url"
    /\ url_i > 1
    /\ Len(trace) = max_retries
    /\ \A k \in 1..Len(trace) : ~Validates(trace[k])
    /\ \E k \in 1..Len(trace) : trace[k].kind = "raise"
    /\ \E k \in 1..Len(trace) : trace[k].kind = "record"
    /\ InSeq(retry_failures, RetryTarget)

\* C3: in the retry phase the first attempt that validates is the last
\* attempt of its target, the target then has exactly one row in the output,
\* and no target with a row is in retry_failures or in failed_urls.csv.
C3_FirstValidAttemptIsLast ==
    /\ InRetryTrace =>
         \A k \in 1..Len(trace) :
            (Validates(trace[k]) /\ \A j \in 1..(k - 1) : ~Validates(trace[j]))
                => /\ Len(trace) = k
                   /\ NumOp(trace, "extract") = k
                   /\ k <= max_retries
                   /\ Cardinality(RowsOf(RetryTarget)) = 1
                   /\ pc # "retry_attempt"
    /\ \A t \in Targets :
         InOutput(t) => ~InSeq(retry_failures, t) /\ ~InSeq(failed_file, t)

C3_Witness ==
    /\ pc = "done"
    /\ Len(trace) = 3
    /\ ~Validates(trace[1])
    /\ ~Validates(trace[2])
    /\ Validates(trace[3])
    /\ failed_urls = <<1>>
    /\ Cardinality(RowsOf(1)) = 1
    /\ failed_file = <<>>

\* A step of the main pass in which a call raised, or in which validation
\* raised on the string "CAPTCHA".
MainPassRaises ==
    /\ pc \in {"check1", "r_open_i", "r_get", "r_open_h", "check2",
               "extract1", "extract2", "validate"}
    /\ trace' # trace
    /\ \/ trace'[Len(trace')].kind = "raise"
       \/ trace'[Len(trace')] = Ev("validate", "CAPTCHA")

\* C4: an exception in the main pass puts the target in failed_urls once and
\* the loop goes on with the next row; the loop is left only after the last
\* row or by the hard stop, and no target is twice in failed_urls.
C4_ExceptionIsolated ==
    /\ [][MainPassRaises =>
            /\ failed_urls' = Append(failed_urls, df[idx])
            /\ idx' = idx + 1
            /\ pc' = "loop"
            /\ ret' = "unset"]_vars
    /\ []((pc \in {"after_loop", "retry_url", "retry_attempt", "retry_after",
                   "retry_save"} \/ ret = "None") => idx = Len(df) + 1)
    /\ [](\A j, k \in 1..Len(failed_urls) : failed_urls[j] = failed_urls[k] => j = k)
    /\ [](ret = "CAPTCHA" => trace # <<>> /\ trace[Len(trace)] = Ev("check", "T"))

C4_Witness ==
    /\ pc = "loop"
    /\ Len(df) = 2
    /\ failed_urls = <<1, 2>>
    /\ ~IsOpen(driver)
    /\ trace = <<Ev("check", "raise")>>

\* The check after a resolve cycle returned True.
RecheckTrue == \E k \in 2..Len(trace) : trace[k] = Ev("check", "T")

\* C5: a challenge at the check and again at the check after the resolve
\* cycle makes scrape_amazon return "CAPTCHA" at once: no extraction for
\* that target, and nothing is called any more for any target.
C5_HardStop ==
    /\ [](RecheckTrue => /\ pc \in {"returned", "done"}
                         /\ ret = "CAPTCHA"
                         /\ trace[1] = Ev("check", "T")
                         /\ NumOp(trace, "extract") = 0)
    /\ [][ret = "CAPTCHA" =>
            /\ trace' = trace
            /\ idx' = idx
            /\ csv_rows' = csv_rows
            /\ ret' = ret]_vars

C5_Witness ==
    /\ pc = "done"
    /\ ret = "CAPTCHA"
    /\ RecheckTrue
    /\ idx = 1
    /\ Len(df) = 2
    /\ csv_rows \in {<<>>, <<PriorRow>>}

\* C6: when the run ends by the hard stop, the targets that were in
\* failed_urls are in failed_urls.csv.
C6_FailuresFlushedOnHardStop ==
    (pc = "done" /\ ret = "CAPTCHA") =>
        \A k \in 1..Len(failed_urls) : InSeq(failed_file, failed_urls[k])

\* C7: when main has ended, every session ever created has been quit, and
\* quit once.
C7_SessionsClosedOnce ==
    pc = "done" => \A d \in 1..Len(sessions) : sessions[d].quits = 1

\* The extraction returned "CAPTCHA" twice for the target of the main pass.
CaptchaTwice ==
    Cardinality({k \in 1..Len(trace) :
                    trace[k].op = "extract" /\ trace[k].kind = "CAPTCHA"}) = 2

\* C8: when the extraction retried after the resolve cycle returns
\* "CAPTCHA" again, the batch is stopped and "CAPTCHA" is returned.
C8_RepeatedChallengeStops ==
    (CaptchaTwice /\ pc # "validate") => (pc \in {"returned", "done"} /\ ret = "CAPTCHA")

\* The calls of a target whose check returned True and whose check after
\* the resolve cycle returned False, up to that second check.
ResolvedPrefix ==
    <<Ev("check", "T"), Ev("quit", "ok"), Ev("open_interactive", "ok"),
      Ev("get", "ok"), Ev("input", "ok"), Ev("quit", "ok"),
      Ev("open_headless", "ok"), Ev("check", "F")>>

RecheckFalse == \E k \in 2..Len(trace) : trace[k] = Ev("check", "F")

\* C9 as stated: after check True and re-check False the calls were quit,
\* open interactive, wait for the operator, quit, open discreet, check; then
\* one extraction exactly, and two checks.
C9_OneExtractionAfterResolve ==
    (InMainTrace /\ RecheckFalse) =>
        /\ Len(trace) >= 8
        /\ SubSeq(trace, 1, 8) = ResolvedPrefix
        /\ NumOp(trace, "check") = 2
        /\ IterationOver => NumOp(trace, "extract") = 1

\* C9 amended: the same order of calls and two checks; the extraction is
\* invoked once, and once more only when it returned "CAPTCHA" and the
\* second resolve cycle went through.
C9_ExtractionAfterResolve ==
    (InMainTrace /\ RecheckFalse) =>
        /\ Len(trace) >= 8
        /\ SubSeq(trace, 1, 8) = ResolvedPrefix
        /\ NumOp(trace, "check") = 2
        /\ Len(trace) >= 9 => trace[9].op = "extract"
        /\ IterationOver =>
             /\ NumOp(trace, "extract") \in {1, 2}
             /\ NumOp(trace, "extract") = 2 =>
                  /\ trace[9].kind = "CAPTCHA"
                  /\ Len(trace) >= 16
                  /\ SubSeq(trace, 10, 15) = SubSeq(ResolvedPrefix, 2, 7)
                  /\ trace[16].op = "extract"
             /\ (Len(trace) >= 9 /\ trace[9].kind # "CAPTCHA") => NumOp(trace, "extract") = 1

C9_Witness ==
    /\ pc = "loop"
    /\ InMainTrace
    /\ RecheckFalse
    /\ NumOp(trace, "extract") = 2
    /\ trace[Len(trace)] = Ev("validate", "record")
    /\ InOutput(1)

\* C10: is_valid_product_data is True exactly when three of the five
\* important fields are not "#ERROR", whatever the other fields hold.
C10_ValidIffThreeOfFive ==
    vres # "unset" =>
        /\ vres = "True" <=>
             \E S \in SUBSET important_fields :
                /\ Cardinality(S) = 3
                /\ \A f \in S : vrec[f] # ERROR
        /\ \A a, b \in {ERROR, NA, TEXT} :
             is_valid_product_data([vrec EXCEPT !["Summary"] = a, !["Publisher"] = b])
                = (vres = "True")

C10_Witness ==
    /\ vres = "True"
    /\ Cardinality({f \in important_fields : vrec[f] # ERROR}) = 3
    /\ vrec["Summary"] = ERROR
    /\ vrec["Publisher"] = ERROR

-----------------------------------------------------------------------------
\* Vocabulary of the properties of clean_url

EndsInOneSlash(str) ==
    /\ str # <<>>
    /\ str[Len(str)] = "/"
    /\ Len(str) >= 2 => str[Len(str) - 1] # "/"

ContainsRef(str) == \E k \in 1..(Len(str) - 1) : str[k] = "/" /\ str[k + 1] = "ref"

\* The URL is a scheme, "://" and a host that is not empty.
HasSchemeAndHost(url) ==
    LET i == Find(url, {":"}, 1)
    IN /\ i > 1
       /\ \A k \in 1..(i - 1) : url[k] \in scheme_chars
       /\ Len(url) >= i + 3
       /\ url[i + 1] = "/"
       /\ url[i + 2] = "/"
       /\ url[i + 3] \in scheme_chars

\* What follows the host in a URL that has a scheme and a host.
AfterHost(url) ==
    LET i == Find(url, {":"}, 1)
        j == Find(url, {"/", "?"}, i + 3)
    IN IF j = 0 THEN <<>> ELSE Drop(url, j - 1)

\* C14: cleaning a cleaned URL gives the same URL.
C14_Idempotent ==
    pc = "clean_url_done" => url_res.twice = url_res.once

\* C15 as stated: for every URL u, u + "/ref=y", u + "/" and u are cleaned
\* to the same URL, which ends in exactly one "/" and has no "/ref" in it.
C15_SuffixInsensitive ==
    pc = "clean_url_done" =>
        /\ url_res.with_ref = url_res.once
        /\ url_res.with_slash = url_res.once
        /\ EndsInOneSlash(url_res.once)
        /\ ~ContainsRef(url_res.once)

\* C15 amended: the same for the URLs that have a scheme and a host and no
\* ";", with no "/ref" after the host.
C15_SuffixInsensitiveWithHost ==
    (pc = "clean_url_done" /\ HasSchemeAndHost(url_arg) /\ Find(url_arg, {";"}, 1) = 0) =>
        /\ url_res.with_ref = url_res.once
        /\ url_res.with_slash = url_res.once
        /\ EndsInOneSlash(url_res.once)
        /\ HasSchemeAndHost(url_res.once)
        /\ ~ContainsRef(AfterHost(url_res.once))

C15_Witness ==
    /\ pc = "clean_url_done"
    /\ url_arg = <<"https", ":", "/", "/", "x", "/", "x", "/">>
    /\ url_res.once = <<"https", ":", "/", "/", "x", "/", "x", "/">>
    /\ url_res.with_ref = url_res.once
    /\ url_res.with_slash = url_res.once

-----------------------------------------------------------------------------
\* C13: check_for_captcha returns True exactly when the letters c-a-p-t-c-h-a,
\* each in either case, stand in a row somewhere in the page source, and it
\* prompts the operator once when it returns True and not at all otherwise.
C13_DetectsKeywordAnyCase ==
    pc = "check_for_captcha_done" =>
        /\ src_res.ret = "True" <=>
             \E k \in 0..(Len(src_arg) - Len(keyword)) :
                \A j \in 1..Len(keyword) :
                    src_arg[k + j] \in {keyword[j], upper_char(keyword[j])}
        /\ src_res.ret \in {"True", "False"}
        /\ src_res.prompts = IF src_res.ret = "True" THEN 1 ELSE 0

C13_Witness ==
    /\ pc = "check_for_captcha_done"
    /\ src_arg = <<"x", "C", "a", "P", "t", "c", "H", "A", "c">>
    /\ src_res = [ret |-> "True", prompts |-> 1]

-----------------------------------------------------------------------------
\* The rule of field f fails on the page: its element is absent where the
\* rule dereferences it, its text is empty where the rule takes the first
\* token, or its date text is no date.
RuleFails(f, elems) ==
    CASE f \in {"Title", "Author", "Format", "Best Sellers Rank"} -> elems[f] = "absent"
      [] f \in {"Amazon Rating", "Amazon # of Ratings"} -> elems[f] \in {"absent", "empty"}
      [] f = "Print Length" -> elems[f] = "empty"
      [] f \in {"ASIN", "Publisher"} -> elems[f] = "nonext"
      [] f = "Publication Date" -> elems[f] \in {"empty", "bad", "na"}
      [] f = "Goodreads Rating" ->
           elems["gr-review-base"] # "absent" /\ elems[f] = "absent"
      [] f = "Goodreads # of Ratings" ->
           elems["gr-review-base"] # "absent" /\ elems[f] \in {"absent", "empty"}
      [] OTHER -> FALSE

Extracted == pc = "scrape_amazon_product_done" /\ ~check_for_captcha(page_arg.source)

\* C11: on a page without a challenge, whatever field rules fail, the
\* extractor returns a record with all fourteen fields in which every failing
\* field is the error sentinel; it never raises.
C11_FieldFailuresIsolated ==
    Extracted =>
        /\ page_res.kind = "record"
        /\ DOMAIN page_res.rec = Fields
        /\ \A f \in Fields : RuleFails(f, page_arg.elems) => page_res.rec[f] = ERROR

\* The page of page_arg with every element but that of field f (and, for a
\* Goodreads field, the Goodreads section) holding usable text.
OnlyOwnElement(f, page) ==
    [page EXCEPT !.elems = [e \in Elements |->
        IF e = f \/ (e = "gr-review-base" /\ f \in {"Goodreads Rating", "Goodreads # of Ratings"})
        THEN page.elems[e]
        ELSE "text"]]

\* C12: the value returned for a field depends only on that field's own
\* element: it is the value returned for the page on which every other
\* element is present with text.
C12_FieldsIndependent ==
    Extracted =>
        \A f \in Fields \ {"URL"} :
            /\ page_res.kind = scrape_amazon_product(OnlyOwnElement(f, page_arg)).kind
            /\ page_res.rec[f] = scrape_amazon_product(OnlyOwnElement(f, page_arg)).rec[f]

-----------------------------------------------------------------------------
\* C16: the output file is append-only over a run: the start of
\* scrape_amazon creates it with the header only when it is absent and leaves
\* it untouched when it exists, and every other step leaves its rows as they
\* are or adds exactly one row after them.
C16_AppendOnly ==
    [][/\ pc = "scrape_start" =>
            /\ csv_exists'
            /\ csv_rows' = IF csv_exists THEN csv_rows ELSE <<>>
       /\ \/ csv_rows' = csv_rows
          \/ /\ Len(csv_rows') = Len(csv_rows) + 1
             /\ SubSeq(csv_rows', 1, Len(csv_rows)) = csv_rows
             /\ csv_exists]_vars

C16_Witness ==
    /\ pc = "done"
    /\ Len(csv_rows) = 3
    /\ csv_rows[1] = PriorRow
    /\ csv_rows[2].url = 1
    /\ csv_rows[3].url = 2

-----------------------------------------------------------------------------
\* The first extraction of the target trace is about returned a record that
\* passes validation.
FirstExtractionValidates ==
    /\ NumOp(trace, "extract") >= 1
    /\ Validates(trace[MinOf({k \in 1..Len(trace) : trace[k].op = "extract"})])

\* The iterations of the main pass: an iteration begins at the head of the
\* loop without moving the row index, ends by moving it to the next row, and
\* the index moves at no other step, so no target has two iterations; a
\* target whose first extraction validates has had one extraction call and
\* has one row, is not in the failure set, and no row is written twice; the
\* retry phase leaves the failure set as it is and attempts only its members;
\* with such a target as the only input there is no failure list.
C17_ValidTargetOnce ==
    /\ [][/\ idx' \in {idx, idx + 1}
          /\ (pc = "loop" /\ pc' = "check1") => idx' = idx /\ idx <= Len(df)
          /\ (pc \notin {"loop", "scrape_start"} /\ pc' = "loop") => idx' = idx + 1
          /\ idx' = idx + 1 =>
                pc \notin {"loop", "scrape_start"} /\ pc' = "loop" /\ idx <= Len(df)
          /\ pc \in {"retry_url", "retry_attempt", "retry_after", "retry_save"} =>
                failed_urls' = failed_urls
          /\ pc = "retry_attempt" => url_i \in 1..Len(failed_urls)]_vars
    /\ [](\A t \in Targets : Cardinality(RowsOf(t)) <= 1)
    /\ []((IterationOver /\ InMainTrace /\ FirstExtractionValidates) =>
            /\ idx >= 2
            /\ NumOp(trace, "extract") = 1
            /\ Cardinality(RowsOf(df[idx - 1])) = 1
            /\ ~InSeq(failed_urls, df[idx - 1]))
    /\ []((pc = "done" /\ Len(df) = 1 /\ InMainTrace /\ FirstExtractionValidates) =>
            /\ failed_urls = <<>>
            /\ retry_failures = <<>>
            /\ failed_file = <<>>)

\* C17: each target is processed exactly once in the main pass: the above,
\* and when the run has ended the main pass has gone through every row.
C17_ProcessedExactlyOnce ==
    /\ C17_ValidTargetOnce
    /\ [](pc = "done" => idx = Len(df) + 1)

\* C17 as it holds: each target is processed at most once in the main pass,
\* and exactly once unless the pass is ended by the hard stop.
C17_ProcessedOnceUnlessHardStop ==
    /\ C17_ValidTargetOnce
    /\ []((pc = "done" /\ ret = "None") => idx = Len(df) + 1)
    /\ []((pc = "done" /\ ret = "CAPTCHA") => idx <= Len(df))

C17_Witness ==
    /\ pc = "done"
    /\ ret = "None"
    /\ Len(df) = 1
    /\ idx = 2
    /\ InMainTrace
    /\ FirstExtractionValidates
    /\ csv_rows = <<PriorRow, [url |-> 1, rec |-> Rec({"Format", "ASIN"}, {"Summary"})]>>

-----------------------------------------------------------------------------
\* The sequence lists targets in the order of the input, none twice.
InInputOrder(s) == \A j, k \in 1..Len(s) : j < k => s[j] < s[k]

\* C18: the failure list that is written holds exactly the targets that
\* failed the main pass and then all max_retries retry attempts, each once
\* and in the order of the input, and none that has a row in the output.
C18_ExactlyFinalFailures ==
    /\ InInputOrder(failed_urls) /\ InInputOrder(retry_failures) /\ InInputOrder(failed_file)
    /\ (pc = "retry_url" /\ url_i > 1) =>
          (InSeq(retry_failures, RetryTarget) <=>
              /\ Len(trace) = max_retries
              /\ \A k \in 1..Len(trace) : trace[k].op = "extract" /\ ~Validates(trace[k]))
    /\ \A t \in Targets :
          /\ InSeq(retry_failures, t) => InSeq(failed_urls, t) /\ ~InOutput(t)
          /\ InSeq(failed_file, t) => InSeq(retry_failures, t)
          /\ (pc \in {"returned", "done"} /\ ret = "None") =>
                (InSeq(failed_file, t) <=> InSeq(failed_urls, t) /\ ~InOutput(t))
    /\ \A k \in 1..Len(failed_file) : failed_file[k] \in Targets
    /\ pc \notin {"returned", "done"} => failed_file = <<>>

C18_Witness ==
    /\ pc = "done"
    /\ Len(df) = 2
    /\ failed_urls = <<1, 2>>
    /\ failed_file = <<2>>
    /\ InOutput(1)

-----------------------------------------------------------------------------
\* C19: failed_urls.csv is written at most once in a run, and only by the
\* step that follows the last retry attempt of the last failing target, and
\* only when a target is still failing then; otherwise it is never written.
C19_WrittenOnceAtEnd ==
    /\ [](failed_writes <= 1)
    /\ []((pc \in {"returned", "done"}) =>
            failed_writes = IF ret = "None" /\ retry_failures # <<>> THEN 1 ELSE 0)
    /\ [][failed_writes' # failed_writes \/ failed_file' # failed_file =>
            /\ pc = "retry_save"
            /\ url_i = Len(failed_urls) + 1
            /\ retry_failures # <<>>
            /\ failed_file' = retry_failures
            /\ pc' = "returned"]_vars
    /\ [][failed_writes >= 1 => trace' = trace /\ csv_rows' = csv_rows]_vars

C19_Witness ==
    /\ pc = "done"
    /\ failed_writes = 1
    /\ failed_file = <<1, 2>>
    /\ Len(trace) = max_retries

-----------------------------------------------------------------------------
\* The step makes a retry attempt, for the target failed_urls[url_i].
RetryStep == pc = "retry_attempt" /\ attempt' = attempt + 1

\* The target is in the failure set and has no row yet.
StillFailing(t) == InSeq(failed_urls, t) /\ ~InOutput(t)

\* Retries begin only after the main pass went through every row, and are
\* made only for targets of the failure set, each of which gets one.
RetriesAfterMainPass ==
    /\ [][RetryStep =>
            /\ idx = Len(df) + 1
            /\ url_i \in 1..Len(failed_urls)
            /\ attempt < max_retries
            /\ retried' = retried \cup {failed_urls[url_i]}]_vars
    /\ [][retried' # retried => RetryStep]_vars
    /\ [](\A t \in retried : InSeq(failed_urls, t))
    /\ []((pc \in {"returned", "done"} /\ ret = "None") =>
            \A k \in 1..Len(failed_urls) : failed_urls[k] \in retried)

\* C20: retries start after the main pass and concern only the failure set,
\* and they run in passes: a target gets a second or later attempt only when
\* every target still failing has had an attempt.
C20_RetryPasses ==
    /\ RetriesAfterMainPass
    /\ [][(RetryStep /\ attempt >= 1) =>
            \A t \in Targets : StillFailing(t) => t \in retried]_vars

\* C20 as it holds: retries start after the main pass and concern only the
\* failure set, and they run target by target in the order of the failure
\* set: when a target gets an attempt, every target before it has finished
\* its attempts (it has a row, or it is in retry_failures) and no target
\* after it has had one.
C20_RetryTargetByTarget ==
    /\ RetriesAfterMainPass
    /\ [][RetryStep =>
            /\ \A j \in 1..Len(failed_urls) :
                  /\ j < url_i => /\ failed_urls[j] \in retried
                                  /\ \/ InOutput(failed_urls[j])
                                     \/ InSeq(retry_failures, failed_urls[j])
                  /\ j > url_i => failed_urls[j] \notin retried
            /\ attempt = 0 <=> failed_urls[url_i] \notin retried]_vars

C20_Witness ==
    /\ pc = "retry_attempt"
    /\ failed_urls = <<1, 2>>
    /\ url_i = 2
    /\ attempt = 2
    /\ retried = {1, 2}
    /\ retry_failures = <<1>>

-----------------------------------------------------------------------------
\* A retry attempt in which the extraction raised, or returned the string
\* "CAPTCHA" on which validation raises.
RetryRaises ==
    /\ RetryStep
    /\ trace' # <<>>
    /\ trace'[Len(trace')].kind \in {"raise", "CAPTCHA"}

\* C21: an exception in a retry attempt uses up one attempt of the target
\* and nothing else: it is caught, the loop is at its next attempt of the
\* same target, nothing is written or returned; the target still gets its
\* remaining attempts and the targets after it get theirs.
C21_RetryExceptionIsolated ==
    /\ [][RetryRaises =>
            /\ attempt' = attempt + 1
            /\ Len(trace') = Len(trace) + 1
            /\ pc' = "retry_attempt"
            /\ url_i' = url_i
            /\ success' = success
            /\ ret' = ret /\ ret = "unset"
            /\ csv_rows' = csv_rows
            /\ failed_urls' = failed_urls
            /\ retry_failures' = retry_failures
            /\ failed_file' = failed_file
            /\ sessions' = sessions]_vars
    /\ []((InRetryTrace /\ pc # "retry_attempt" /\ trace # <<>>) =>
            \/ Len(trace) = max_retries
            \/ Validates(trace[Len(trace)]))
    /\ []((pc \in {"returned", "done"} /\ retried # {}) =>
            /\ ret = "None"
            /\ \A k \in 1..Len(failed_urls) : failed_urls[k] \in retried)

C21_Witness ==
    /\ pc = "done"
    /\ failed_urls = <<1, 2>>
    /\ retry_failures = <<1>>
    /\ Len(trace) = 3
    /\ trace[1].kind = "raise"
    /\ trace[2].kind = "raise"
    /\ Validates(trace[3])
    /\ InOutput(2)

-----------------------------------------------------------------------------
\* The extractor returned a record.
ReturnedRecord == Extracted /\ page_res.kind = "record"

\* The Goodreads block is on the page and extracting from it raises: no
\* rating span, no count span, or a count span without a token.
GoodreadsRaises(elems) ==
    /\ elems["gr-review-base"] # "absent"
    /\ \/ elems["Goodreads Rating"] = "absent"
       \/ elems["Goodreads # of Ratings"] \in {"absent", "empty"}

\* C22: in a record returned, the two Goodreads fields are both the
\* not-present value when the block is absent, both the error sentinel
\* exactly when the block is present and extracting from it raised, and
\* the extracted texts otherwise.
C22_GoodreadsThreeWay ==
    ReturnedRecord =>
        LET elems == page_arg.elems
            rating == page_res.rec["Goodreads Rating"]
            count == page_res.rec["Goodreads # of Ratings"]
        IN /\ elems["gr-review-base"] = "absent" => rating = NAN /\ count = NAN
           /\ GoodreadsRaises(elems) <=> rating = ERROR
           /\ GoodreadsRaises(elems) <=> count = ERROR
           /\ (elems["gr-review-base"] # "absent" /\ ~GoodreadsRaises(elems)) =>
                 /\ rating = IF elems["Goodreads Rating"] = "empty" THEN "" ELSE TEXT
                 /\ count = TEXT

C22_Witness ==
    /\ ReturnedRecord
    /\ page_arg.elems["gr-review-base"] = "absent"
    /\ page_arg.elems["Goodreads Rating"] = "absent"
    /\ page_res.rec["Goodreads Rating"] = NAN
    /\ page_res.rec["Goodreads # of Ratings"] = NAN
    /\ page_res.rec["Title"] = TEXT

-----------------------------------------------------------------------------
\* C23: on a page that holds the challenge marker scrape_amazon_product
\* returns "CAPTCHA" straight after the check, with no wait for the page, no
\* scroll or sleep and no field rule applied; a record is returned only for
\* a page on which no challenge was detected.
C23_ChallengeShortCircuits ==
    /\ [][(pc = "scrape_amazon_product" /\ check_for_captcha(page_arg.source)) =>
            /\ pc' = "scrape_amazon_product_done"
            /\ page_res' = Captcha]_vars
    /\ [](pc \in {"wait_for_page", "scroll_and_sleep", "apply_field_rules"} =>
            ~check_for_captcha(page_arg.source) /\ page_res = NoData)
    /\ [](pc = "scrape_amazon_product_done" =>
            /\ page_res.kind = "CAPTCHA" <=> check_for_captcha(page_arg.source)
            /\ page_res.kind = "CAPTCHA" => page_res = Captcha)

C23_Witness ==
    /\ pc = "scrape_amazon_product_done"
    /\ page_arg.source = <<"x", "C", "a", "p", "t", "c", "h", "a">>
    /\ \A e \in Elements : page_arg.elems[e] = "text"
    /\ page_res = Captcha

-----------------------------------------------------------------------------
\* C24: a timeout of the wait for the page is no failure: the extractor goes
\* on, returns what it returns for the same page without a timeout, and what
\* it returns is a record, so that only validation can fail the target.
C24_TimeoutNotAFailure ==
    /\ (pc \in {"scroll_and_sleep", "apply_field_rules"} /\ page_arg.timeout) =>
            page_res = NoData
    /\ (Extracted /\ page_arg.timeout) =>
            /\ page_res = scrape_amazon_product([page_arg EXCEPT !.timeout = FALSE])
            /\ page_res.kind = "record"

-----------------------------------------------------------------------------
\* The main pass has finished with a target whose only extraction returned
\* the record of the page without elements.
InterstitialInMainPass ==
    /\ IterationOver
    /\ InMainTrace
    /\ NumOp(trace, "extract") = 1
    /\ \E k \in 1..Len(trace) : trace[k] = EvExtract(Dict(InterstitialRecord))

\* C25: the page on which no element is present gives a record, not an
\* exception, with four of the five important fields in error, which does
\* not pass validation; in the main pass its target gets no row and is put
\* in failed_urls, and a retry attempt that meets such a page writes no row
\* and does not end the attempts of its target.
C25_InterstitialFailsValidation ==
    /\ [](LET out == scrape_amazon_product(InterstitialPage)
          IN /\ out.kind = "record"
             /\ out.rec = InterstitialRecord
             /\ {f \in important_fields : out.rec[f] = ERROR} =
                   {"Title", "Author", "Format", "Amazon Rating"}
             /\ ~is_valid_product_data(out.rec))
    /\ [](InterstitialInMainPass =>
            /\ idx >= 2
            /\ ~InOutput(df[idx - 1])
            /\ failed_urls # <<>>
            /\ failed_urls[Len(failed_urls)] = df[idx - 1])
    /\ [][(RetryStep /\ trace' # <<>>
              /\ trace'[Len(trace')] = EvExtract(Dict(InterstitialRecord))) =>
            /\ csv_rows' = csv_rows
            /\ attempt' = attempt + 1
            /\ pc' = "retry_attempt"
            /\ success' = success]_vars
    /\ [](\A k \in 1..Len(csv_rows) : csv_rows[k].rec # InterstitialRecord)

C25_Witness ==
    /\ pc = "done"
    /\ df = <<1>>
    /\ failed_file = <<1>>
    /\ csv_rows = <<>>
    /\ Len(trace) = max_retries
    /\ \A k \in 1..Len(trace) : trace[k] = EvExtract(Dict(InterstitialRecord))

-----------------------------------------------------------------------------
\* C26: in a record returned, the publication date is the not-present value
\* exactly when its element is absent, the error sentinel exactly when the
\* element is present with a text that is no date, and the formatted date
\* otherwise.
C26_DateThreeWay ==
    ReturnedRecord =>
        LET st == page_arg.elems["Publication Date"]
            pub_date == page_res.rec["Publication Date"]
        IN /\ pub_date = NA <=> st = "absent"
           /\ pub_date = ERROR <=> st \in {"empty", "bad", "na"}
           /\ pub_date = FormattedDate <=> st = "text"

-----------------------------------------------------------------------------
OpenSessions == {d \in 1..Len(sessions) : sessions[d].quits = 0}

\* C27: at most one session is open at any point of a run; a session is
\* acquired only when every session acquired before has been quit; and the
\* posture of a session is the one it was opened with.
C27_OneSessionOpen ==
    /\ [](Cardinality(OpenSessions) <= 1)
    /\ [][Len(sessions') # Len(sessions) =>
            /\ Len(sessions') = Len(sessions) + 1
            /\ OpenSessions = {}
            /\ sessions'[Len(sessions')].quits = 0]_vars
    /\ [][\A d \in 1..Len(sessions) :
            /\ d <= Len(sessions')
            /\ sessions'[d].headless = sessions[d].headless]_vars

C27_Witness ==
    /\ pc = "r_input"
    /\ ~no_login
    /\ Len(sessions) = 5
    /\ OpenSessions = {5}
    /\ ~sessions[5].headless
    /\ driver = 5

-----------------------------------------------------------------------------
\* The last extraction recorded in a history.
LastExtract(tr) == tr[MaxOf({k \in 1..Len(tr) : tr[k].op = "extract"})]

\* C28: every row appended to the output, in the main pass and in a retry,
\* is the record returned by the last extraction of its target, and that
\* record has at most two of its five important fields in error; the string
\* "CAPTCHA" and a record that fails validation are never written.
C28_OnlyValidRowsWritten ==
    /\ [][Len(csv_rows') > Len(csv_rows) =>
            /\ pc \in {"validate", "retry_attempt"}
            /\ NumOp(trace', "extract") >= 1
            /\ LastExtract(trace').kind = "record"
            /\ Validates(LastExtract(trace'))
            /\ csv_rows'[Len(csv_rows')].rec = LastExtract(trace').rec
            /\ csv_rows'[Len(csv_rows')].url =
                  IF pc = "validate" THEN df[idx] ELSE failed_urls[url_i]]_vars
    /\ [](\A k \in 1..Len(csv_rows) :
            /\ Cardinality({f \in important_fields : csv_rows[k].rec[f] = ERROR}) <= 2
            /\ csv_rows[k].rec # EmptyRec
            /\ csv_rows[k].rec # InterstitialRecord)
    /\ [][(trace' # trace /\ trace' # <<>> /\ trace'[Len(trace')].op \in {"extract", "validate"}
              /\ NumOp(trace', "extract") >= 1 /\ ~Validates(LastExtract(trace'))) =>
            csv_rows' = csv_rows]_vars

C28_Witness ==
    /\ pc = "done"
    /\ Len(df) = 2
    /\ failed_urls = <<2>>
    /\ Len(csv_rows) = 2
    /\ csv_rows[1] = [url |-> 1, rec |-> Rec({"Format", "ASIN"}, {"Summary"})]
    /\ csv_rows[2] = [url |-> 2, rec |-> Rec({}, {})]
    /\ Len(trace) = 2
    /\ trace[1].kind = "CAPTCHA"

-----------------------------------------------------------------------------
\* The step calls scrape_amazon_product(driver, url).
ExtractionCall ==
    /\ pc \in {"extract1", "extract2", "retry_attempt"}
    /\ trace' # trace
    /\ trace' # <<>>
    /\ trace'[Len(trace')].op = "extract"

\* C29: every extraction call, in the main pass and in the retry phase, is
\* made with a session opened in the discreet posture, and a session in the
\* interactive posture is the current one only from the challenge detection
\* to the operator's answer.
C29_ExtractionIsDiscreet ==
    /\ [][ExtractionCall =>
            /\ driver \in 1..Len(sessions)
            /\ sessions[driver].headless]_vars
    /\ []((driver \in 1..Len(sessions) /\ ~sessions[driver].headless) =>
            pc \in {"r_get", "r_input", "r_quit2", "r_open_h"})

-----------------------------------------------------------------------------
\* A retry attempt whose extraction returned "CAPTCHA".
RetryChallenge ==
    /\ RetryStep
    /\ trace' # <<>>
    /\ trace'[Len(trace')] = EvExtract(Captcha)

\* C30: in the retry phase an extraction that returns "CAPTCHA" is a failed
\* attempt and no more: it uses up one attempt, no session is quit or
\* opened, scrape_amazon does not return, nothing is written; a target all
\* of whose attempts returned "CAPTCHA" has had max_retries attempts and is
\* in retry_failures, and in failed_urls.csv when the run has ended.
C30_RetryChallengeIsFailedAttempt ==
    /\ [][RetryChallenge =>
            /\ attempt' = attempt + 1
            /\ attempt' <= max_retries
            /\ pc' = "retry_attempt"
            /\ sessions' = sessions
            /\ driver' = driver
            /\ ret' = "unset"
            /\ csv_rows' = csv_rows
            /\ success' = FALSE]_vars
    /\ []((InRetryTrace /\ pc = "retry_url" /\ trace # <<>>
              /\ \A k \in 1..Len(trace) : trace[k] = EvExtract(Captcha)) =>
            /\ Len(trace) = max_retries
            /\ InSeq(retry_failures, RetryTarget)
            /\ ~InOutput(RetryTarget))
    /\ []((pc \in {"returned", "done"} /\ retried # {} /\ trace # <<>>
              /\ \A k \in 1..Len(trace) : trace[k] = EvExtract(Captcha)) =>
            /\ ret = "None"
            /\ Len(trace) = max_retries
            /\ failed_file # <<>>
            /\ failed_file[Len(failed_file)] = failed_urls[Len(failed_urls)])

C30_Witness ==
    /\ pc = "done"
    /\ failed_urls = <<1, 2>>
    /\ InOutput(1)
    /\ failed_file = <<2>>
    /\ Len(trace) = max_retries
    /\ \A k \in 1..Len(trace) : trace[k] = EvExtract(Captcha)

-----------------------------------------------------------------------------
\* No target is twice in failed_urls.
NoDuplicates(s) == \A i, j \in 1..Len(s) : s[i] = s[j] => i = j

\* C31: a run of scrape_amazon over a finite input ends when every prompt is
\* answered; the main pass visits each row once and extracts it at most
\* twice, and the retry phase takes each failed target once and extracts it
\* at most max_retries times.
C31_TerminatesWithBoundedExtractions ==
    /\ (pc = "scrape_start") ~> (pc = "returned")
    /\ <>[](pc = "done")
    /\ [](InMainTrace => NumOp(trace, "extract") <= 2)
    /\ [](InRetryTrace => NumOp(trace, "extract") <= max_retries)
    /\ [][pc' = "check1" => pc = "loop" /\ idx' = idx /\ trace' = <<>>]_vars
    /\ [][(pc' = "loop" /\ pc \notin {"scrape_start", "loop"}) => idx' = idx + 1]_vars
    /\ [][idx' # idx => pc' = "loop"]_vars
    /\ [](NoDuplicates(failed_urls) /\ Len(failed_urls) <= Len(df))
    /\ [][(pc' = "retry_attempt" /\ pc # "retry_attempt") =>
            pc = "retry_url" /\ url_i' = url_i /\ trace' = <<>>]_vars
    /\ [][pc' = "retry_url" => url_i' = IF pc = "after_loop" THEN 1 ELSE url_i + 1]_vars

C31_Witness ==
    /\ pc = "done"
    /\ ret = "None"
    /\ Len(df) = MaxTargets
    /\ failed_urls = <<1>>
    /\ csv_rows # <<>>
    /\ csv_rows[Len(csv_rows)].url = 1
    /\ NumOp(trace, "extract") = max_retries

====
